---- MODULE Spec2Model ----
(***************************************************************************)
(* GeneralizedDataset (nerfstudio/data/datasets/generalized_dataset.py):   *)
(* the size probe run by the constructor, the per-sample assembly done by  *)
(* get_data (image cache, grayscale flag, callbacks, mask) and the depth   *)
(* calibration done by get_metadata.                                       *)
(*                                                                         *)
(* Tensors are records: an image carries the file it was decoded from, its *)
(* height, width and the list of its channels; a depth map carries one     *)
(* exact rational per pixel (float32 rounding is left out).  Sample indices *)
(* are 0 .. NumImages-1 as in the code.  A registered callback is a        *)
(* function of the sample index.  Exceptions are named by their Python     *)
(* type.                                                                   *)
(***************************************************************************)
EXTENDS Integers, Sequences, FiniteSets, TLC

\* ------------------------------------------------------------- bounds
NumImages == 3
NumWorkers == 2
MaxCalls == 3

Indices == 0 .. (NumImages - 1)
AllWorkers == 1 .. NumWorkers

\* ---------------------------------------------------- exact rationals
\* Pixel values of depth maps are exact rationals <<numerator, denominator>>
\* with a positive denominator, in lowest terms.

\* F applied to the value of v, v being evaluated once.
Bind(v, F(_)) == CHOOSE r \in {F(x) : x \in {v}} : TRUE
Bind2(u, v, F(_, _)) == CHOOSE r \in {F(x, y) : x \in {u}, y \in {v}} : TRUE

Abs(x) == IF x < 0 THEN -x ELSE x

RECURSIVE Gcd(_, _)
Gcd(a, b) == Bind2(a, b, LAMBDA x, y : IF y = 0 THEN x ELSE Gcd(y, x % y))

Rat(n, d) ==
    Bind2(n, d, LAMBDA x, y :
        Bind(Gcd(Abs(x), Abs(y)), LAMBDA g :
            IF y < 0 THEN <<(-x) \div g, (-y) \div g>> ELSE <<x \div g, y \div g>>))

RZero == <<0, 1>>
ROne == <<1, 1>>
RInt(n) == <<n, 1>>
RAdd(u, v) == Bind2(u, v, LAMBDA x, y : Rat(x[1] * y[2] + y[1] * x[2], x[2] * y[2]))
RSub(u, v) == Bind2(u, v, LAMBDA x, y : Rat(x[1] * y[2] - y[1] * x[2], x[2] * y[2]))
RMul(u, v) == Bind2(u, v, LAMBDA x, y : Rat(x[1] * y[1], x[2] * y[2]))
RDiv(u, v) == Bind2(u, v, LAMBDA x, y : Rat(x[1] * y[2], x[2] * y[1]))
RPos(x) == x[1] > 0

RECURSIVE RSum(_, _)
\* The sum of f[p] over the finite set S.
RSum(S, f) ==
    Bind2(S, f, LAMBDA T, g :
        IF T = {} THEN RZero
        ELSE Bind(CHOOSE q \in T : TRUE, LAMBDA p : RAdd(g[p], RSum(T \ {p}, g))))

\* ------------------------------------------------------------ tensors
\* Row-major pixel coordinates of an [h, w, ...] tensor.
Pixels(h, w) == (0 .. (h - 1)) \X (0 .. (w - 1))

\* Python's None for the h and w locals of the constructor.
None == -1

\* The image sizes (height, width) of the files of a dataset.
Sizes == {<<1, 2>>, <<2, 1>>, <<2, 2>>}
Channels == {1, 3}

\* The field names of a sample.
BuiltinKeys == {"image_idx", "is_gray", "image"}
MetaKeys == {"depth_image", "sensor_depth", "normal_image"}
Keys == BuiltinKeys \cup MetaKeys \cup {"mask", "extra"}

\* A merge that keeps the entries d already has.
DictUpdateKeep(d, m) ==
    [k \in (DOMAIN d) \cup (DOMAIN m) |-> IF k \in DOMAIN d THEN d[k] ELSE m[k]]

\* dict.update: the entries of m replace or extend those of d.
DictUpdate(d, m) ==
    [k \in (DOMAIN d) \cup (DOMAIN m) |-> IF k \in DOMAIN m THEN m[k] ELSE d[k]]

EmptyDict == [k \in {} |-> 0]

\* BasicImages([t]): the wrapper holds the list it is given.
BasicImages(images) == images

VARIABLES
    \* the dataset's inputs (DataparserOutputs), fixed after Init
    image_files,        \* index -> [h, w, c] of the image file
    has_masks,          \* mask_filenames is present
    mask_files,         \* index -> [h, w, nz]: shape and non-zero pixels
    metadata,           \* the metadata mapping
    dataparser_scale,   \* a rational
    depth_pattern,      \* contents of the depth files
    sensor_pattern,     \* contents of the sensor depth files
    debug,              \* Python's __debug__: assert statements are executed
    workers,            \* the workers that call get_data
    \* the constructor
    ctor, h, w, all_hw_same, probe_pos, opened, depth_unit_scale_factor,
    \* the dataset object
    image_cache,
    \* instrumentation: calls of get_image and writes of image_cache, per index
    loads, writes,
    \* the get_data calls
    calls, pc, image_idx, image, hit, ret, returned

config == <<image_files, has_masks, mask_files, metadata, dataparser_scale,
            depth_pattern, sensor_pattern, debug, workers>>
probe == <<ctor, h, w, all_hw_same, probe_pos, opened, depth_unit_scale_factor>>
call == <<calls, pc, image_idx, image, hit, ret, returned>>
vars == <<config, probe, image_cache, loads, writes, call>>

\* ------------------------------------------------ the files of a dataset
\* get_image (InputDataset): the decoded [h, w, c] image of file i; its
\* channels are numbered 1 .. c.
get_image(i) ==
    [src |-> "image", id |-> i, h |-> image_files[i].h, w |-> image_files[i].w,
     ch |-> [k \in 1 .. image_files[i].c |-> k]]

\* PIL's Image.open: the header of file i.
ImageOpen(i) == [height |-> image_files[i].h, width |-> image_files[i].w]

\* The raw value stored at pixel p of depth file j.
DepthRaw(j, p) ==
    IF depth_pattern = "ramp" THEN 1 + 2 * p[1] + p[2] + j ELSE 1 + j

\* The raw value stored at pixel p of sensor depth file j.  With
\* depth_unit_scale_factor = 1/2 the patterns "affine", "partial" and "single"
\* make sensor_depth = 2 * depth_image + 1/2 wherever sensor_depth > 0.
SensorRaw(j, p) ==
    LET affine == 2 * DepthRaw(j, p) * dataparser_scale[1] + 1
    IN  CASE sensor_pattern = "zero" -> 0
          [] sensor_pattern = "affine" -> affine
          [] sensor_pattern = "partial" -> IF p = <<0, 0>> THEN 0 ELSE affine
          [] sensor_pattern = "single" -> IF p = <<0, 0>> THEN affine ELSE 0
          [] OTHER -> DepthRaw(j, p) * DepthRaw(j, p)

\* get_depth_image_from_path: file j resized to [height, width, 1], every
\* value multiplied by scale_factor.
get_depth_image_from_path(kind, j, height, width, scale_factor) ==
    [src |-> kind, id |-> j, h |-> height, w |-> width,
     px |-> [p \in Pixels(height, width) |->
               RMul(RInt(IF kind = "depth" THEN DepthRaw(j, p) ELSE SensorRaw(j, p)),
                    scale_factor)]]

\* get_normal_image_from_path: file j resized to [height, width, 3] and
\* rotated by the given camera pose.
get_normal_image_from_path(j, height, width, camera_to_world) ==
    [src |-> "normal", id |-> j, h |-> height, w |-> width, pose |-> camera_to_world]

\* get_image_mask_tensor_from_path: the [h, w, 1] mask of file i.
get_image_mask_tensor_from_path(i) == mask_files[i]

\* What the callback registered at position p of the metadata returns for
\* sample i: a mapping with the keys entry.ret.  A returned image_idx is
\* another valid index, every other value is a tensor of the callback's own.
CallbackResult(p, entry, i) ==
    [k \in entry.ret |->
        IF k = "image_idx" THEN (i + 1) % NumImages
        ELSE BasicImages(<<[src |-> "func", id |-> p, h |-> 1, w |-> 2, ch |-> <<1>>]>>)]

\* ------------------------------------------------------ the constructor
\* Line 65 with height and width compared by "and".
SizeMismatchBoth(img, h1, w1) == img.height # h1 /\ img.width # w1

\* Line 65: image.height != h or image.width != w.
SizeMismatch(img, h1, w1) == img.height # h1 \/ img.width # w1

\* One iteration of the loop over image_filenames (lines 57-67); on a
\* mismatch the loop is left and the constructor finishes (lines 69-71).
ProbeOpen ==
    /\ ctor = "loop"
    /\ probe_pos < NumImages
    /\ LET img == ImageOpen(probe_pos)
           h1 == IF h = None THEN img.height ELSE h
           w1 == IF h = None THEN img.width ELSE w
       IN  /\ opened' = Append(opened, probe_pos)
           /\ h' = h1
           /\ w' = w1
           /\ IF SizeMismatch(img, h1, w1)
              THEN /\ all_hw_same' = FALSE
                   /\ ctor' = "done"
                   /\ probe_pos' = probe_pos
                   /\ depth_unit_scale_factor' =
                        IF metadata.has_unit THEN metadata.unit ELSE RZero
              ELSE /\ all_hw_same' = all_hw_same
                   /\ ctor' = ctor
                   /\ probe_pos' = probe_pos + 1
                   /\ depth_unit_scale_factor' = depth_unit_scale_factor
    /\ UNCHANGED <<config, image_cache, loads, writes, call>>

\* The loop ends with no mismatch (lines 69-71).
ProbeFinish ==
    /\ ctor = "loop"
    /\ probe_pos = NumImages
    /\ ctor' = "done"
    /\ depth_unit_scale_factor' = IF metadata.has_unit THEN metadata.unit ELSE RZero
    /\ UNCHANGED <<h, w, all_hw_same, probe_pos, opened>>
    /\ UNCHANGED <<config, image_cache, loads, writes, call>>

\* ------------------------------------------------------------- get_data
\* Line 84: image_idx in self.image_cache.
CacheHas(cache, i) == i \in DOMAIN cache

\* Line 88 left out: nothing is stored.
CacheStoreNothing(cache, i, img) == cache

\* Line 88: self.image_cache[image_idx] = image.
CacheStore(cache, i, img) ==
    [k \in (DOMAIN cache) \cup {i} |-> IF k = i THEN img ELSE cache[k]]

\* Line 91: torch.ones_like(image[..., :1]) * image.shape[-1] == 1, a boolean
\* [h, w, 1] tensor holding the same value at every pixel.
IsGray(img) ==
    [src |-> "is_gray", h |-> img.h, w |-> img.w, val |-> (1 * Len(img.ch) = 1)]

\* Lines 93-94 left out: the image keeps its channels.
TileNone(img) == img

\* Lines 93-94: a one-channel image is tiled to three channels; tile returns
\* a new tensor.
Tile(img) ==
    IF Len(img.ch) = 1 THEN [img EXCEPT !.ch = img.ch \o img.ch \o img.ch] ELSE img

\* Lines 90-95 with is_gray computed after the tiling.
BuiltinFieldsGrayAfterTile(i, img) ==
    [image_idx |-> i,
     is_gray |-> BasicImages(<<IsGray(Tile(img))>>),
     image |-> BasicImages(<<Tile(img)>>)]

\* Lines 90-95: the built-in fields.
BuiltinFields(i, img) ==
    [image_idx |-> i,
     is_gray |-> BasicImages(<<IsGray(img)>>),
     image |-> BasicImages(<<Tile(img)>>)]

RECURSIVE RunCallbacks(_, _, _)
\* Lines 96-100, from position p of the metadata on: every entry that is a
\* dict with a "func" is called and its result merged into data.  An entry
\* without "kwargs" fails the assert of line 99, or, with assert statements
\* compiled out, the lookup of line 100.
RunCallbacks(data, p, i) ==
    IF p > Len(metadata.entries) THEN [err |-> "", data |-> data]
    ELSE LET entry == metadata.entries[p]
         IN  IF ~entry.func THEN RunCallbacks(data, p + 1, i)
             ELSE IF ~entry.kwargs
                  THEN [err |-> IF debug THEN "AssertionError" ELSE "KeyError",
                        data |-> data]
                  ELSE RunCallbacks(DictUpdate(data, CallbackResult(p, entry, i)),
                                    p + 1, i)

\* Whether pixel p comes before pixel q in row-major order.
RowMajorBefore(p, q) == p[1] < q[1] \/ (p[1] = q[1] /\ p[2] < q[2])

RECURSIVE Nonzero(_)
\* Line 109: torch.nonzero, the coordinates of the non-zero pixels in
\* row-major order.
Nonzero(nz) ==
    IF nz = {} THEN <<>>
    ELSE LET first == CHOOSE p \in nz : \A q \in nz \ {p} : RowMajorBefore(p, q)
         IN  <<first>> \o Nonzero(nz \ {first})

\* Lines 101-112: the mask of sample i.  img is the local (tiled) image.
MaskStage(data, img, i) ==
    IF ~has_masks THEN [err |-> "", data |-> data]
    ELSE LET mask_image == get_image_mask_tensor_from_path(i)
             mask_tensor == Nonzero(mask_image.nz)
         IN  IF debug /\ <<mask_image.h, mask_image.w>> # <<img.h, img.w>>
             THEN [err |-> "AssertionError", data |-> data]
             ELSE IF debug /\ ~(Len(mask_tensor) > 0)
                  THEN [err |-> "AssertionError", data |-> data]
                  ELSE [err |-> "",
                        data |-> DictUpdate(data,
                                   [mask |-> BasicImages(<<[src |-> "mask", id |-> i,
                                                            coords |-> mask_tensor]>>)])]

\* --------------------------------------------------------- get_metadata
\* Line 150: torch.linalg.lstsq(D, sensor_image[mask]).solution for the rows
\* D = [x[p], 1], p in valid, in exact arithmetic.  A full-rank system has
\* the unique least-squares solution; a rank-deficient one (every x[p] the
\* same) gets the minimum-norm least-squares solution.  With no row at all
\* the solver either returns the zero solution or raises, depending on the
\* build: emptyFit is that outcome.
lstsq(x, y, valid, emptyFit) ==
    Bind(<<RInt(Cardinality(valid)),
           RSum(valid, x),
           RSum(valid, y),
           RSum(valid, [p \in valid |-> RMul(x[p], x[p])]),
           RSum(valid, [p \in valid |-> RMul(x[p], y[p])])>>,
         LAMBDA S :
           LET n == S[1]
               Sx == S[2]
               Sy == S[3]
               Sxx == S[4]
               Sxy == S[5]
           IN  Bind(RSub(RMul(n, Sxx), RMul(Sx, Sx)), LAMBDA det :
                 IF valid = {}
                 THEN [err |-> IF emptyFit = "raise" THEN "RuntimeError" ELSE "",
                       s |-> RZero, b |-> RZero]
                 ELSE IF det # RZero
                      THEN [err |-> "",
                            s |-> RDiv(RSub(RMul(n, Sxy), RMul(Sx, Sy)), det),
                            b |-> RDiv(RSub(RMul(Sxx, Sy), RMul(Sx, Sxy)), det)]
                      ELSE LET c == RDiv(Sx, n)
                               ybar == RDiv(Sy, n)
                               norm == RAdd(RMul(c, c), ROne)
                           IN  [err |-> "", s |-> RDiv(RMul(c, ybar), norm),
                                b |-> RDiv(ybar, norm)]))

\* Line 147: (sensor_image > 0.0).squeeze().  squeeze() drops every axis of
\* length 1, so the mask is [h, w] only when h > 1 and w > 1; otherwise the
\* boolean indexing of line 149 or the solver's shape check raises.
SqueezeError(sensor_image) ==
    IF sensor_image.h > 1 /\ sensor_image.w > 1 THEN ""
    ELSE IF sensor_image.h = 1 /\ sensor_image.w > 1 THEN "IndexError"
    ELSE "RuntimeError"

\* Lines 145-152: the affine fit and the corrected depth.
Calibrate(depth_image, sensor_image, emptyFit) ==
    IF SqueezeError(sensor_image) # ""
    THEN [err |-> SqueezeError(sensor_image), depth_image |-> depth_image,
          s |-> RZero, b |-> RZero]
    ELSE Bind(lstsq(depth_image.px, sensor_image.px,
                    {p \in DOMAIN sensor_image.px : RPos(sensor_image.px[p])}, emptyFit),
              LAMBDA Sb :
                [err |-> Sb.err,
                 depth_image |->
                    [depth_image EXCEPT
                       !.px = [p \in DOMAIN depth_image.px |->
                                 RAdd(RMul(depth_image.px[p], Sb.s), Sb.b)]],
                 s |-> Sb.s, b |-> Sb.b])

\* The fields get_metadata computes from the loaded tensors (lines 132, 143,
\* 152, 161) and fit, the outcome of the calibration.
MetadataFields(idx, height, width, depth_image, sensor_image, fit) ==
    LET has_depth == metadata.depth_filenames
        has_sensor == metadata.sensor_filenames
        m1 == IF has_depth
              THEN [depth_image |-> BasicImages(<<depth_image>>)] ELSE EmptyDict
        m2 == IF has_sensor
              THEN DictUpdate(m1, [sensor_depth |-> BasicImages(<<sensor_image>>)])
              ELSE m1
        m3 == IF has_sensor /\ has_depth
              THEN DictUpdate(m2, [depth_image |-> BasicImages(<<fit.depth_image>>)])
              ELSE m2
        m4 == IF metadata.normal_filenames
              THEN DictUpdate(m3, [normal_image |->
                      BasicImages(<<get_normal_image_from_path(idx, height, width, idx)>>)])
              ELSE m3
    IN  IF has_sensor /\ has_depth /\ fit.err # ""
        THEN [err |-> fit.err, metadata |-> m2, fitted |-> FALSE, s |-> RZero, b |-> RZero]
        ELSE [err |-> "", metadata |-> m4, fitted |-> has_sensor /\ has_depth,
              s |-> fit.s, b |-> fit.b]

\* Lines 117-163.  The index and the target height and width are read from
\* data (lines 120-121).  Both tensors are evaluated here; MetadataFields
\* keeps those whose filenames the metadata holds.
get_metadata(data, emptyFit) ==
    LET idx == data["image_idx"]
        height == data["image"][1].h
        width == data["image"][1].w
    IN  Bind2(get_depth_image_from_path("depth", idx, height, width,
                 RMul(depth_unit_scale_factor, dataparser_scale)),
              get_depth_image_from_path("sensor", idx, height, width,
                 depth_unit_scale_factor),
              LAMBDA depth_image, sensor_image :
                Bind(IF metadata.depth_filenames /\ metadata.sensor_filenames
                     THEN Calibrate(depth_image, sensor_image, emptyFit)
                     ELSE [err |-> "", depth_image |-> depth_image,
                           s |-> RZero, b |-> RZero],
                     LAMBDA fit :
                       MetadataFields(idx, height, width, depth_image, sensor_image, fit)))

\* Lines 90-115 for sample i and the image taken from the cache or the
\* loader: the returned sample, or the exception that ends the call.
Assemble(i, img, emptyFit) ==
    LET none == [err |-> "", fitted |-> FALSE, s |-> RZero, b |-> RZero,
                 data |-> EmptyDict]
    IN  Bind(RunCallbacks(BuiltinFields(i, img), 1, i), LAMBDA cb :
          IF cb.err # "" THEN [none EXCEPT !.err = cb.err]
          ELSE Bind(MaskStage(cb.data, Tile(img), i), LAMBDA mk :
                 IF mk.err # "" THEN [none EXCEPT !.err = mk.err]
                 ELSE Bind(get_metadata(mk.data, emptyFit), LAMBDA md :
                        IF md.err # "" THEN [none EXCEPT !.err = md.err]
                        ELSE [err |-> "", fitted |-> md.fitted, s |-> md.s, b |-> md.b,
                              data |-> DictUpdate(mk.data, md.metadata)])))

\* ------------------------------------------------ the steps of get_data
NoImage == [src |-> "none", id |-> 0, h |-> 0, w |-> 0, ch |-> <<>>]

NoResult ==
    [kind |-> "none", idx |-> 0, hit |-> FALSE, err |-> "", data |-> EmptyDict,
     fitted |-> FALSE, s |-> RZero, b |-> RZero]

\* Worker v calls get_data(i): the test of line 84 and, on a hit, line 85.
Call(v, i) ==
    /\ ctor = "done"
    /\ pc[v] = "idle"
    /\ calls < MaxCalls
    /\ calls' = calls + 1
    /\ image_idx' = [image_idx EXCEPT ![v] = i]
    /\ IF CacheHas(image_cache, i)
       THEN /\ image' = [image EXCEPT ![v] = image_cache[i]]
            /\ hit' = [hit EXCEPT ![v] = TRUE]
            /\ pc' = [pc EXCEPT ![v] = "build"]
       ELSE /\ image' = image
            /\ hit' = [hit EXCEPT ![v] = FALSE]
            /\ pc' = [pc EXCEPT ![v] = "load"]
    /\ UNCHANGED <<config, probe, image_cache, loads, writes, ret, returned>>

\* Line 87: image = self.get_image(image_idx).
Load(v) ==
    /\ pc[v] = "load"
    /\ image' = [image EXCEPT ![v] = get_image(image_idx[v])]
    /\ loads' = [loads EXCEPT ![image_idx[v]] = @ + 1]
    /\ pc' = [pc EXCEPT ![v] = "store"]
    /\ UNCHANGED <<config, probe, image_cache, writes, calls, image_idx, hit, ret, returned>>

\* Line 88: self.image_cache[image_idx] = image.
Store(v) ==
    /\ pc[v] = "store"
    /\ image_cache' = CacheStore(image_cache, image_idx[v], image[v])
    /\ writes' = [writes EXCEPT ![image_idx[v]] = @ + 1]
    /\ pc' = [pc EXCEPT ![v] = "build"]
    /\ UNCHANGED <<config, probe, loads, calls, image_idx, image, hit, ret, returned>>

\* Lines 90-115: the sample is assembled and returned, or an exception ends
\* the call.
Build(v) ==
    /\ pc[v] = "build"
    /\ \E emptyFit \in {"zeros", "raise"} :
          \E out \in {Assemble(image_idx[v], image[v], emptyFit)} :
              /\ ret' = [ret EXCEPT ![v] =
                          [kind |-> IF out.err = "" THEN "sample" ELSE "error",
                           idx |-> image_idx[v], hit |-> hit[v], err |-> out.err,
                           data |-> out.data, fitted |-> out.fitted,
                           s |-> out.s, b |-> out.b]]
              /\ returned' =
                   IF out.err = ""
                   THEN [returned EXCEPT ![image_idx[v]] = @ \cup {out.data["image"]}]
                   ELSE returned
    /\ image' = [image EXCEPT ![v] = NoImage]
    /\ pc' = [pc EXCEPT ![v] = "idle"]
    /\ UNCHANGED <<config, probe, image_cache, loads, writes, calls, image_idx, hit>>

Next ==
    \/ ProbeOpen
    \/ ProbeFinish
    \/ \E v \in workers : \E i \in Indices : Call(v, i)
    \/ \E v \in workers : Load(v)
    \/ \E v \in workers : Store(v)
    \/ \E v \in workers : Build(v)

\* ------------------------------------------------------- the datasets
\* A mask file of the given shape.
MaskFile(kind, height, width) ==
    CASE kind = "empty" -> [h |-> height, w |-> width, nz |-> {}]
      [] kind = "one" -> [h |-> height, w |-> width, nz |-> {<<0, 0>>}]
      [] kind = "two" -> [h |-> height, w |-> width,
                          nz |-> {<<0, 0>>, <<height - 1, width - 1>>}]
      [] OTHER -> [h |-> height + 1, w |-> width, nz |-> {<<0, 0>>}]

MaskKinds == {"empty", "one", "two", "wrongshape"}
DepthPatterns == {"ramp", "const"}
SensorPatterns == {"zero", "affine", "partial", "single", "square"}

\* Metadata entries: a plain dict, a callback without kwargs, callbacks
\* returning the given keys.
Callback(keys) == [func |-> TRUE, kwargs |-> TRUE, ret |-> keys]
EntryKinds ==
    {[func |-> FALSE, kwargs |-> FALSE, ret |-> {}],
     [func |-> TRUE, kwargs |-> FALSE, ret |-> {"extra"}],
     Callback({"extra"}),
     Callback({"extra", "mask", "depth_image"}),
     Callback({"image_idx"}),
     Callback({"image", "is_gray"})}
EntrySeqs == {<<>>} \cup {<<e>> : e \in EntryKinds}
                    \cup {<<e, f>> : e \in EntryKinds, f \in EntryKinds}

Uniform(height, width, c) == [i \in Indices |-> [h |-> height, w |-> width, c |-> c]]

Base ==
    [image_files |-> Uniform(2, 2, 3),
     has_masks |-> FALSE,
     mask_files |-> [i \in Indices |-> MaskFile("two", 2, 2)],
     metadata |-> [depth_filenames |-> FALSE, sensor_filenames |-> FALSE,
                   normal_filenames |-> FALSE, has_unit |-> TRUE, unit |-> <<1, 2>>,
                   entries |-> <<>>],
     dataparser_scale |-> RInt(1),
     depth_pattern |-> "ramp",
     sensor_pattern |-> "affine",
     debug |-> TRUE]

\* Datasets whose images differ in size.
ImageDatasets ==
    {[Base EXCEPT !.image_files =
         [i \in Indices |-> [h |-> sz[i][1], w |-> sz[i][2], c |-> 3]]] :
       sz \in [Indices -> Sizes]}

\* Datasets whose images differ in the number of channels.
ChannelDatasets ==
    {[Base EXCEPT !.image_files = [i \in Indices |-> [h |-> 2, w |-> 2, c |-> ch[i]]]] :
       ch \in [Indices -> Channels]}

\* Datasets with masks.
MaskDatasets ==
    {[Base EXCEPT !.has_masks = TRUE,
                  !.image_files = [Uniform(2, 2, 3) EXCEPT ![0].c = c],
                  !.mask_files = [i \in Indices |->
                                    MaskFile(IF i = 0 THEN k ELSE "two", 2, 2)],
                  !.debug = d] :
       k \in MaskKinds, c \in Channels, d \in BOOLEAN}

\* Datasets with registered callbacks, with and without masks and depth,
\* sensor depth and normal files.
CallbackDatasets ==
    {[Base EXCEPT !.metadata.entries = e,
                  !.has_masks = aux,
                  !.metadata.depth_filenames = aux,
                  !.metadata.sensor_filenames = aux,
                  !.metadata.normal_filenames = aux,
                  !.debug = d] :
       e \in EntrySeqs, aux \in BOOLEAN, d \in BOOLEAN}

\* Datasets with depth, sensor depth and normal files.
DepthDatasets ==
    {[Base EXCEPT !.image_files = Uniform(sz[1], sz[2], 3),
                  !.metadata.depth_filenames = dp,
                  !.metadata.sensor_filenames = sn,
                  !.metadata.normal_filenames = nm,
                  !.depth_pattern = dpat,
                  !.sensor_pattern = spat] :
       sz \in Sizes, dp \in BOOLEAN, sn \in BOOLEAN, nm \in BOOLEAN,
       dpat \in DepthPatterns, spat \in SensorPatterns}
    \cup
    {[Base EXCEPT !.metadata.depth_filenames = TRUE,
                  !.metadata.sensor_filenames = TRUE,
                  !.dataparser_scale = RInt(2),
                  !.depth_pattern = dpat,
                  !.sensor_pattern = spat] :
       dpat \in DepthPatterns, spat \in SensorPatterns}
    \cup
    {[Base EXCEPT !.metadata.depth_filenames = dp,
                  !.metadata.sensor_filenames = sn,
                  !.metadata.has_unit = FALSE] :
       dp \in BOOLEAN, sn \in BOOLEAN}

Datasets ==
    ImageDatasets \cup ChannelDatasets \cup MaskDatasets \cup CallbackDatasets
        \cup DepthDatasets

\* The state before the constructor runs, for dataset d and the workers ws.
Start(d, ws) ==
    /\ image_files = d.image_files
    /\ has_masks = d.has_masks
    /\ mask_files = d.mask_files
    /\ metadata = d.metadata
    /\ dataparser_scale = d.dataparser_scale
    /\ depth_pattern = d.depth_pattern
    /\ sensor_pattern = d.sensor_pattern
    /\ debug = d.debug
    /\ workers = ws
    /\ ctor = "loop"
    /\ h = None
    /\ w = None
    /\ all_hw_same = TRUE
    /\ probe_pos = 0
    /\ opened = <<>>
    /\ depth_unit_scale_factor = RZero
    /\ image_cache = EmptyDict
    /\ loads = [i \in Indices |-> 0]
    /\ writes = [i \in Indices |-> 0]
    /\ calls = 0
    /\ pc = [v \in AllWorkers |-> "idle"]
    /\ image_idx = [v \in AllWorkers |-> 0]
    /\ image = [v \in AllWorkers |-> NoImage]
    /\ hit = [v \in AllWorkers |-> FALSE]
    /\ ret = [v \in AllWorkers |-> NoResult]
    /\ returned = [i \in Indices |-> {}]

\* One worker: the single-threaded run.
Init == \E d \in Datasets : Start(d, {1})
Spec == Init /\ [][Next]_vars

\* Several workers share the dataset object.
InitConc == \E d \in ChannelDatasets : Start(d, AllWorkers)
SpecConc == InitConc /\ [][Next]_vars

\* ============================================================== claims
Completed(v) == ret[v].kind # "none"
Sample(v) == ret[v].kind = "sample"
BothDepths == metadata.depth_filenames /\ metadata.sensor_filenames

\* The positions of the callbacks that return field k.
Writers(k) ==
    {p \in 1 .. Len(metadata.entries) :
        metadata.entries[p].func /\ k \in metadata.entries[p].ret}

Max(S) == CHOOSE m \in S : \A n \in S : n <= m

\* ---- C1
\* C1: with one worker, get_image is called at most once per index, exactly
\* once for every index a call has completed for or the cache holds; the
\* cache holds the image the loader returns for that index; and all samples
\* returned for one index, from a miss or from a hit, hold the same image.
C1_CacheIdempotence ==
    \A i \in Indices :
        /\ loads[i] <= 1
        /\ (CacheHas(image_cache, i) => loads[i] = 1 /\ image_cache[i] = get_image(i))
        /\ \A v \in workers : Completed(v) /\ ret[v].idx = i => loads[i] = 1
        /\ Cardinality(returned[i]) <= 1

\* A second call for an index returned a sample from the cache.
C1_Witness ==
    /\ calls >= 2
    /\ Sample(1) /\ ret[1].hit
    /\ loads[ret[1].idx] = 1
    /\ returned[ret[1].idx] # {}

\* ---- C2
\* The is_gray field of sample data tells whether image file i has one channel.
GrayFlagRight(data, i) ==
    /\ Len(data["is_gray"]) = 1
    /\ data["is_gray"][1].src = "is_gray"
    /\ data["is_gray"][1].val = (image_files[i].c = 1)

\* The image field of sample data has three channels, three copies of the
\* single channel when image file i has one.
ThreeChannels(data, i) ==
    /\ Len(data["image"]) = 1
    /\ Len(data["image"][1].ch) = 3
    /\ image_files[i].c = 1 =>
          data["image"][1].ch[1] = data["image"][1].ch[2]
          /\ data["image"][1].ch[2] = data["image"][1].ch[3]

\* C2 as stated: in every returned sample, from a miss or from a hit, is_gray
\* tells whether the decoded image has one channel and image has three
\* channels.
C2_Original ==
    \A v \in workers :
        Sample(v) => GrayFlagRight(ret[v].data, ret[v].idx)
                     /\ ThreeChannels(ret[v].data, ret[v].idx)

\* C2 amended: the same, for is_gray unless a registered callback returns a
\* field named is_gray, and for image unless one returns a field named image.
C2_GrayFlag ==
    \A v \in workers :
        Sample(v) =>
            /\ Writers("is_gray") = {} => GrayFlagRight(ret[v].data, ret[v].idx)
            /\ Writers("image") = {} => ThreeChannels(ret[v].data, ret[v].idx)

\* A one-channel image served from the cache is flagged gray and tiled.
C2_Witness ==
    /\ Sample(1) /\ ret[1].hit
    /\ image_files[ret[1].idx].c = 1
    /\ ret[1].data["is_gray"][1].val
    /\ Len(ret[1].data["image"][1].ch) = 3

\* ---- C3
\* C3: with mask filenames, a completed call whose mask file has k > 0
\* non-zero pixels and that returns a sample returns k coordinates, and one
\* whose mask file is all zero fails with EmptyMaskError.
C3_MaskContract ==
    \A v \in workers :
        Completed(v) /\ has_masks =>
            LET k == Cardinality(mask_files[ret[v].idx].nz)
            IN  /\ k > 0 /\ Sample(v) =>
                     Len(ret[v].data["mask"][1].coords) = k
                /\ k = 0 => ret[v].kind = "error" /\ ret[v].err = "EmptyMaskError"

\* ---- C4
\* The sensor depth of sample i has no pixel above zero.
NoValidPixel(i) ==
    \A p \in Pixels(image_files[i].h, image_files[i].w) :
        ~RPos(RMul(RInt(SensorRaw(i, p)), depth_unit_scale_factor))

\* C4: with depth and sensor filenames and no valid sensor pixel, a call
\* that reaches the calibration fails with CalibrationError.
C4_CalibrationError ==
    \A v \in workers :
        Completed(v) /\ BothDepths /\ metadata.entries = <<>> /\ ~has_masks
        /\ NoValidPixel(ret[v].idx) =>
            ret[v].kind = "error" /\ ret[v].err = "CalibrationError"

\* ---- C5
\* C5: whatever the interleaving of the workers, no image is decoded twice
\* and no cache entry is written twice.
C5_AtomicInsert ==
    \A i \in Indices : loads[i] <= 1 /\ writes[i] <= 1

\* ---- C6
SameSize(i, j) ==
    image_files[i].h = image_files[j].h /\ image_files[i].w = image_files[j].w

\* C6: the images are opened in order, none after the first one whose size
\* differs from the first image's; and when the constructor is done,
\* all_hw_same tells whether every image has the size of the first, all
\* images having been opened if so.
C6_SizeProbe ==
    /\ Len(opened) <= NumImages
    /\ \A j \in 1 .. Len(opened) : opened[j] = j - 1
    /\ \A j \in 1 .. (Len(opened) - 1) : SameSize(opened[j], 0)
    /\ ctor = "done" =>
          /\ all_hw_same = (\A i \in Indices : SameSize(i, 0))
          /\ all_hw_same => Len(opened) = NumImages
          /\ ~all_hw_same => ~SameSize(opened[Len(opened)], 0)

\* The scan stopped at a mismatch before the last image.
C6_Witness ==
    ctor = "done" /\ ~all_hw_same /\ Len(opened) < NumImages

\* ---- C7
\* C7 as stated: every returned sample has the fields image_index, image and
\* is_gray, image_index being the requested index and image one [H, W, 3]
\* tensor.
C7_Original ==
    \A v \in workers :
        Sample(v) =>
            /\ {"image_index", "image", "is_gray"} \subseteq DOMAIN ret[v].data
            /\ ret[v].data["image_index"] = ret[v].idx
            /\ Len(ret[v].data["image"]) = 1
            /\ Len(ret[v].data["image"][1].ch) = 3

\* C7 amended: every returned sample has the fields image_idx, image and
\* is_gray; image_idx is the requested index unless a callback returns a
\* field named image_idx, and image is one [H, W, 3] tensor of the size of
\* image file i unless a callback returns a field named image.
C7_MandatoryFields ==
    \A v \in workers :
        Sample(v) =>
            /\ {"image_idx", "image", "is_gray"} \subseteq DOMAIN ret[v].data
            /\ Writers("image_idx") = {} => ret[v].data["image_idx"] = ret[v].idx
            /\ Writers("image") = {} =>
                  /\ Len(ret[v].data["image"]) = 1
                  /\ Len(ret[v].data["image"][1].ch) = 3
                  /\ ret[v].data["image"][1].h = image_files[ret[v].idx].h
                  /\ ret[v].data["image"][1].w = image_files[ret[v].idx].w

\* A sample of a one-channel image that also carries a mask.
C7_Witness ==
    /\ Sample(1)
    /\ image_files[ret[1].idx].c = 1
    /\ "mask" \in DOMAIN ret[1].data
    /\ ret[1].data["image_idx"] = ret[1].idx

\* ---- C8
\* The depth and sensor depth of sample i as loaded, before the calibration.
LoadedDepth(i) ==
    get_depth_image_from_path("depth", i, image_files[i].h, image_files[i].w,
                              RMul(depth_unit_scale_factor, dataparser_scale))
LoadedSensor(i) ==
    get_depth_image_from_path("sensor", i, image_files[i].h, image_files[i].w,
                              depth_unit_scale_factor)
ValidPixels(i) == {p \in DOMAIN LoadedSensor(i).px : RPos(LoadedSensor(i).px[p])}

\* s and b minimise the squared residual of s * x + b - y over the pixels of
\* valid: the residual is orthogonal to x and to 1.
LeastSquares(s, b, x, y, valid) ==
    LET r == [p \in valid |-> RSub(RAdd(RMul(s, x[p]), b), y[p])]
    IN  /\ RSum(valid, [p \in valid |-> RMul(r[p], x[p])]) = RZero
        /\ RSum(valid, r) = RZero

\* C8, for the calls that reach get_metadata with the built-in fields (no
\* callback, no mask): with depth and sensor filenames the call returns the
\* depth s * depth_image + b at every pixel, s and b being the least-squares
\* fit over the valid pixels, and the sensor depth as loaded; s = 2 and
\* b = 1/2 when sensor_depth = 2 * depth_image + 1/2 on the valid pixels,
\* the corrected depth then being the sensor depth there; without one of the
\* two no fit is made.
C8_Calibration ==
    \A v \in workers :
        Completed(v) /\ metadata.entries = <<>> /\ ~has_masks =>
            LET i == ret[v].idx
                x == LoadedDepth(i).px
                y == LoadedSensor(i).px
                valid == ValidPixels(i)
                d == ret[v].data
            IN  /\ Sample(v)
                /\ ret[v].fitted = BothDepths
                /\ ~BothDepths /\ metadata.depth_filenames =>
                      d["depth_image"][1].px = x
                /\ metadata.sensor_filenames => d["sensor_depth"][1].px = y
                /\ BothDepths =>
                      /\ LeastSquares(ret[v].s, ret[v].b, x, y, valid)
                      /\ \A p \in DOMAIN x :
                            d["depth_image"][1].px[p] =
                               RAdd(RMul(x[p], ret[v].s), ret[v].b)
                      /\ (\A p \in valid : y[p] = RAdd(RMul(RInt(2), x[p]), <<1, 2>>)) =>
                            /\ ret[v].s = RInt(2)
                            /\ ret[v].b = <<1, 2>>
                            /\ \A p \in valid : d["depth_image"][1].px[p] = y[p]

\* ---- C9
\* The fields get_metadata produces.
MetaProduced ==
    {k \in MetaKeys :
        \/ k = "depth_image" /\ metadata.depth_filenames
        \/ k = "sensor_depth" /\ metadata.sensor_filenames
        \/ k = "normal_image" /\ metadata.normal_filenames}

MetaSource(k) ==
    CASE k = "depth_image" -> "depth"
      [] k = "sensor_depth" -> "sensor"
      [] OTHER -> "normal"

\* C9: a returned sample holds the built-in fields, the fields of every
\* callback, the mask when there are masks and the fields of get_metadata;
\* each field has the value of its last writer in the order built-in
\* fields, callbacks in metadata order, mask, get_metadata.
C9_MergeOrder ==
    \A v \in workers :
        Sample(v) =>
            LET d == ret[v].data
                i == ret[v].idx
            IN  /\ DOMAIN d = BuiltinKeys \cup {k \in Keys : Writers(k) # {}}
                                \cup (IF has_masks THEN {"mask"} ELSE {})
                                \cup MetaProduced
                /\ \A k \in DOMAIN d :
                      IF k \in MetaProduced THEN d[k][1].src = MetaSource(k)
                      ELSE IF k = "mask" /\ has_masks THEN d[k][1].src = "mask"
                      ELSE IF Writers(k) # {}
                           THEN d[k] = CallbackResult(Max(Writers(k)),
                                          metadata.entries[Max(Writers(k))], i)[k]
                           ELSE d[k] = BuiltinFields(i, get_image(i))[k]

\* Two callbacks collided on a field, and a callback's mask and depth_image
\* were replaced by the built-in mask and by get_metadata's depth.
C9_Witness ==
    /\ Sample(1)
    /\ Cardinality(Writers("extra")) = 2
    /\ ret[1].data["extra"][1].id = 2
    /\ Writers("mask") # {} /\ ret[1].data["mask"][1].src = "mask"
    /\ Writers("depth_image") # {} /\ ret[1].data["depth_image"][1].src = "depth"

\* ---- C10
\* C10: in every returned sample the depth, sensor depth and normal come
\* from the files at the requested index, have the height and width of the
\* image at that index, and the normal uses the camera pose of that index.
C10_IndexIntegrity ==
    \A v \in workers :
        Sample(v) =>
            \A k \in MetaProduced :
                /\ ret[v].data[k][1].id = ret[v].idx
                /\ ret[v].data[k][1].h = image_files[ret[v].idx].h
                /\ ret[v].data[k][1].w = image_files[ret[v].idx].w
                /\ k = "normal_image" => ret[v].data[k][1].pose = ret[v].idx

====
